---- MODULE Spec2Model ----
(***************************************************************************)
(* Model of pl_bolts/models/gans/srgan/srresnet_module.py: the SRResNet    *)
(* model adapter (constructor, forward, training_step,                     *)
(* configure_optimizers, add_model_specific_args) and the command-line     *)
(* driver cli_main, together with the parts of the argument parser, the    *)
(* numeric library and the training orchestrator the driver calls into.    *)
(***************************************************************************)
EXTENDS Integers, Sequences, FiniteSets, TLC

(* ------------------------------ bounds --------------------------------- *)
\* longest pixel row of a tensor the dataset adapter hands out
MaxLen == 2
\* most batches the dataset adapter yields per epoch
MaxBatches == 1
\* most epochs the orchestrator is followed through
MaxEpochsRun == 2
\* most training_step calls the orchestrator is followed through
MaxSteps == 2
\* number of parameter tensors of the generator network
NumParamTensors == 2

(* --------------------------- scalar values ----------------------------- *)
\* A Python scalar: None, an int v, or a float v * 10^e (v not divisible by
\* 10 unless it is 0).
NoneVal == [t |-> "none", v |-> 0, e |-> 0]

IntVal(n) == [t |-> "int", v |-> n, e |-> 0]

RECURSIVE NormFloat(_, _)
NormFloat(m, e) ==
    IF m = 0 THEN [t |-> "float", v |-> 0, e |-> 0]
    ELSE IF m % 10 = 0 THEN NormFloat(m \div 10, e + 1)
    ELSE [t |-> "float", v |-> m, e |-> e]

FloatVal(m, e) == NormFloat(m, e)

(* ------------------------- text <-> numbers ---------------------------- *)
\* Text is a sequence of pieces; argument text is one character per piece.
Digits == <<"0", "1", "2", "3", "4", "5", "6", "7", "8", "9">>

IsDigit(c) == \E d \in 1..10 : Digits[d] = c

DigitVal(c) == (CHOOSE d \in 1..10 : Digits[d] = c) - 1

AllDigits(s) == Len(s) > 0 /\ \A i \in 1..Len(s) : IsDigit(s[i])

RECURSIVE DigitsToNat(_)
DigitsToNat(s) ==
    IF Len(s) = 0 THEN 0
    ELSE 10 * DigitsToNat(SubSeq(s, 1, Len(s) - 1)) + DigitVal(s[Len(s)])

\* a signed decimal literal: optional "-" then one or more digits
IsSigned(s) ==
    /\ Len(s) > 0
    /\ IF s[1] = "-" THEN AllDigits(Tail(s)) ELSE AllDigits(s)

SignedVal(s) == IF s[1] = "-" THEN 0 - DigitsToNat(Tail(s)) ELSE DigitsToNat(s)

\* Python int(text): the value of a signed decimal literal, ValueError
\* (ok = FALSE) otherwise.
int_(s) ==
    IF IsSigned(s) THEN [ok |-> TRUE, val |-> IntVal(SignedVal(s))]
    ELSE [ok |-> FALSE, val |-> NoneVal]

\* position of the exponent marker "e" in s, 0 when there is none
ExpPos(s) ==
    IF \E i \in 1..Len(s) : s[i] = "e"
    THEN CHOOSE i \in 1..Len(s) : s[i] = "e" /\ \A j \in 1..(i - 1) : s[j] # "e"
    ELSE 0

\* Python float(text) on <signed>[e<signed>] literals, ValueError otherwise.
float_(s) ==
    LET p == ExpPos(s)
        mant == IF p = 0 THEN s ELSE SubSeq(s, 1, p - 1)
        expo == IF p = 0 THEN <<"0">> ELSE SubSeq(s, p + 1, Len(s))
    IN  IF IsSigned(mant) /\ IsSigned(expo)
        THEN [ok |-> TRUE, val |-> FloatVal(SignedVal(mant), SignedVal(expo))]
        ELSE [ok |-> FALSE, val |-> NoneVal]

RECURSIVE NatToDigits(_)
NatToDigits(n) ==
    IF n < 10 THEN <<Digits[n + 1]>>
    ELSE NatToDigits(n \div 10) \o <<Digits[(n % 10) + 1]>>

\* Python str(value) as used by an f-string field, for None and ints
str_(val) ==
    IF val.t = "none" THEN <<"None">>
    ELSE IF val.v < 0 THEN <<"-">> \o NatToDigits(0 - val.v)
    ELSE NatToDigits(val.v)

(* ---------------------------- argument parser --------------------------- *)
EmptyMap == [k \in {} |-> NoneVal]

\* one option of a parser: its flag, its type converter and its default
Option(flag, type, default) == [flag |-> flag, type |-> type, default |-> default]

\* parser.add_argument("--<dest>", default=..., type=...)
add_argument(parser, dest, type, default) ==
    (dest :> Option(<<"--", dest>>, type, default)) @@ parser

\* the driver's own parser with its one local option
DriverParser == add_argument(EmptyMap, "log_interval", "int", IntVal(1000))

\* the options of the dataset adapter are not used by the driver's own code;
\* the orchestrator contributes max_epochs, read back when the file is named,
\* with the default of the installed orchestrator
Trainer_add_argparse_args(parser, default) ==
    add_argument(parser, "max_epochs", "int", default)

\* a model option group whose image_channels defaults to 0
add_model_specific_args_mutant_channels(parent_parser) ==
    add_argument(
        add_argument(
            add_argument(parent_parser, "image_channels", "int", IntVal(0)),
            "feature_maps", "int", IntVal(64)),
        "learning_rate", "float", FloatVal(1, -4))

\* a model option group whose feature_maps defaults to 32
add_model_specific_args_mutant_maps(parent_parser) ==
    add_argument(
        add_argument(
            add_argument(parent_parser, "image_channels", "int", IntVal(3)),
            "feature_maps", "int", IntVal(32)),
        "learning_rate", "float", FloatVal(1, -4))

\* SRResNet.add_model_specific_args
add_model_specific_args(parent_parser) ==
    add_argument(
        add_argument(
            add_argument(parent_parser, "image_channels", "int", IntVal(3)),
            "feature_maps", "int", IntVal(64)),
        "learning_rate", "float", FloatVal(1, -4))

\* the converter an option names, applied to the argument's text
Convert(type, text) == IF type = "int" THEN int_(text) ELSE float_(text)

\* an argument of the command line: a flag and, when given, its value text
Arg(dest, text) == [flag |-> <<"--", dest>>, hasVal |-> TRUE, val |-> text]

BareArg(dest) == [flag |-> <<"--", dest>>, hasVal |-> FALSE, val |-> <<>>]

Defaults(parser) == [d \in DOMAIN parser |-> parser[d].default]

RECURSIVE ParseInto(_, _, _)
ParseInto(parser, argv, ns) ==
    IF Len(argv) = 0 THEN [ok |-> TRUE, ns |-> ns]
    ELSE LET tok == Head(argv)
             known == {d \in DOMAIN parser : parser[d].flag = tok.flag}
         IN  IF known = {} \/ ~tok.hasVal THEN [ok |-> FALSE, ns |-> EmptyMap]
             ELSE LET d == CHOOSE x \in known : TRUE
                      c == Convert(parser[d].type, tok.val)
                  IN  IF ~c.ok THEN [ok |-> FALSE, ns |-> EmptyMap]
                      ELSE ParseInto(parser, Tail(argv), (d :> c.val) @@ ns)

\* parser.parse_args(args): the namespace, or a usage error (ok = FALSE) on
\* an unknown flag, a flag without its value or a value its type rejects
parse_args(parser, argv) == ParseInto(parser, argv, Defaults(parser))

(* ------------------------------- tensors ------------------------------- *)
\* the generator enlarges the spatial size by this factor
Scale == 2
\* channel count of the images the dataset adapter yields
DataChannels == 3

Pixel == {0, 1}
Weights == {0, 1}

Rows(n) == UNION {[1..k -> Pixel] : k \in 1..n}

\* a tensor: ch identical channels, each the pixel row px
Tensor(ch, px) == [ch |-> ch, px |-> px]

\* the tensors of pixel rows up to n long
TensorsUpTo(n) == {Tensor(DataChannels, px) : px \in Rows(n)}

Tensors == TensorsUpTo(MaxLen)

NoTensor == Tensor(0, <<>>)

(* --------------------------- generator network ------------------------- *)
SRGANGenerator(id, image_channels, feature_maps) ==
    [id |-> id, image_channels |-> image_channels, feature_maps |-> feature_maps]

NoNet == SRGANGenerator(0, NoneVal, NoneVal)

\* applying the network: rejects a tensor whose channel count is not the
\* declared one; otherwise every pixel is transformed by the current weights
\* and repeated Scale times
SRGANGenerator_call(net, w, x) ==
    IF net.image_channels.t # "int" \/ x.ch # net.image_channels.v
    THEN [ok |-> FALSE, out |-> NoTensor]
    ELSE [ok |-> TRUE,
          out |-> Tensor(x.ch, [i \in 1..(Scale * Len(x.px)) |->
                                  (x.px[((i - 1) \div Scale) + 1] + w) % 2])]

parameters(net) == {[owner |-> net.id, k |-> k] : k \in 1..NumParamTensors}

(* ------------------------------ mse_loss -------------------------------- *)
NoLoss == [num |-> 0, den |-> 0]

Max(a, b) == IF a >= b THEN a ELSE b

Broadcastable(m, n) == m = n \/ m = 1 \/ n = 1

At(px, i) == IF Len(px) = 1 THEN px[1] ELSE px[i]

RECURSIVE SumSq(_, _, _)
SumSq(a, b, n) ==
    IF n = 0 THEN 0
    ELSE (At(a, n) - At(b, n)) * (At(a, n) - At(b, n)) + SumSq(a, b, n - 1)

\* F.mse_loss(input, target): the mean, as the fraction num/den, of the
\* squared differences over the broadcast shape; fails when the shapes do
\* not broadcast
mse_loss(input, target) ==
    IF ~Broadcastable(input.ch, target.ch)
       \/ ~Broadcastable(Len(input.px), Len(target.px))
    THEN [ok |-> FALSE, loss |-> NoLoss]
    ELSE LET ch == Max(input.ch, target.ch)
             n == Max(Len(input.px), Len(target.px))
         IN  [ok |-> TRUE,
              loss |-> [num |-> ch * SumSq(input.px, target.px, n), den |-> ch * n]]

(* ------------------------------- SRResNet ------------------------------- *)
NamedArgs == {"image_channels", "feature_maps", "learning_rate"}

CtorDefault(name) ==
    IF name = "image_channels" THEN IntVal(3)
    ELSE IF name = "feature_maps" THEN IntVal(64)
    ELSE FloatVal(1, -4)

\* a constructor that records the default feature_maps, not the one given
SRResNet_init_mutant_ignore_maps(kwargs) ==
    LET hp == [k \in NamedArgs \cup DOMAIN kwargs |->
                 IF k = "feature_maps" THEN CtorDefault(k)
                 ELSE IF k \in DOMAIN kwargs THEN kwargs[k] ELSE CtorDefault(k)]
    IN  [hparams |-> hp,
         srresnet |-> SRGANGenerator(1, hp["image_channels"], hp["feature_maps"])]

\* SRResNet.__init__(**kwargs): save_hyperparameters() records every
\* constructor argument, the extra keyword arguments included, and the
\* generator is built from the recorded values
SRResNet_init(kwargs) ==
    LET hp == [k \in NamedArgs \cup DOMAIN kwargs |->
                 IF k \in DOMAIN kwargs THEN kwargs[k] ELSE CtorDefault(k)]
    IN  [hparams |-> hp,
         srresnet |-> SRGANGenerator(1, hp["image_channels"], hp["feature_maps"])]

\* SRResNet.forward
forward(srresnet, w, x) == SRGANGenerator_call(srresnet, w, x)

NoOptimizer == [kind |-> "none", params |-> {}, lr |-> NoneVal]

\* an optimizer left at the constructor's default learning rate
configure_optimizers_mutant_default_lr(hparams, srresnet) ==
    [kind |-> "Adam", params |-> parameters(srresnet), lr |-> FloatVal(1, -4)]

\* SRResNet.configure_optimizers
configure_optimizers(hparams, srresnet) ==
    [kind |-> "Adam", params |-> parameters(srresnet), lr |-> hparams["learning_rate"]]

Metric(name, value, on_step, on_epoch) ==
    [name |-> name, value |-> value, on_step |-> on_step, on_epoch |-> on_epoch]

Raised(where) == [outcome |-> where, loss |-> NoLoss, logged |-> <<>>]

\* a training_step that measures the error against the low-res element
training_step_mutant_lr_target(srresnet, w, batch) ==
    LET hr_image == batch[1]
        lr_image == batch[2]
        fake == forward(srresnet, w, lr_image)
    IN  IF ~fake.ok THEN Raised("forward_raised")
        ELSE LET l == mse_loss(lr_image, fake.out)
             IN  IF ~l.ok THEN Raised("loss_raised")
                 ELSE [outcome |-> "returned", loss |-> l.loss,
                       logged |-> <<Metric("loss", l.loss, TRUE, TRUE)>>]

\* a training_step that logs per step only
training_step_mutant_step_only(srresnet, w, batch) ==
    LET hr_image == batch[1]
        lr_image == batch[2]
        fake == forward(srresnet, w, lr_image)
    IN  IF ~fake.ok THEN Raised("forward_raised")
        ELSE LET l == mse_loss(hr_image, fake.out)
             IN  IF ~l.ok THEN Raised("loss_raised")
                 ELSE [outcome |-> "returned", loss |-> l.loss,
                       logged |-> <<Metric("loss", l.loss, TRUE, FALSE)>>]

\* a training_step that swallows a failed loss computation
training_step_mutant_suppress(srresnet, w, batch) ==
    LET hr_image == batch[1]
        lr_image == batch[2]
        fake == forward(srresnet, w, lr_image)
    IN  IF ~fake.ok THEN Raised("forward_raised")
        ELSE LET l == mse_loss(hr_image, fake.out)
                 loss == IF l.ok THEN l.loss ELSE [num |-> 0, den |-> 1]
             IN  [outcome |-> "returned", loss |-> loss,
                  logged |-> <<Metric("loss", loss, TRUE, TRUE)>>]

\* SRResNet.training_step(batch, batch_idx): the outcome, the loss returned
\* and the metrics logged by the call
training_step(srresnet, w, batch) ==
    LET hr_image == batch[1]
        lr_image == batch[2]
        fake == forward(srresnet, w, lr_image)
    IN  IF ~fake.ok THEN Raised("forward_raised")
        ELSE LET l == mse_loss(hr_image, fake.out)
             IN  IF ~l.ok THEN Raised("loss_raised")
                 ELSE [outcome |-> "returned", loss |-> l.loss,
                       logged |-> <<Metric("loss", l.loss, TRUE, TRUE)>>]

(* ------------------------------ file name ------------------------------- *)
\* a file name with the two counts exchanged
ArtifactName_mutant_epoch_step_swapped(max_epochs, global_step) ==
    <<"srresnet-epoch=">> \o str_(IntVal(global_step)) \o <<"-step=">>
        \o str_(max_epochs) \o <<".pt">>

\* f"srresnet-epoch={args.max_epochs}-step={trainer.global_step}.pt"
ArtifactName(max_epochs, global_step) ==
    <<"srresnet-epoch=">> \o str_(max_epochs) \o <<"-step=">>
        \o str_(IntVal(global_step)) \o <<".pt">>

(* ------------------------------- inputs --------------------------------- *)
\* the argument sequences cli_main is run with
Argvs ==
    { <<>>,
      <<Arg("image_channels", <<"1">>), Arg("max_epochs", <<"1">>)>>,
      <<Arg("feature_maps", <<"8">>),
        Arg("learning_rate", <<"1", "0", "e", "-", "4">>),
        Arg("log_interval", <<"2">>),
        Arg("max_epochs", <<"1", "0">>)>>,
      <<Arg("image_channels", <<"0">>)>>,
      <<Arg("image_channels", <<"x">>)>>,
      <<Arg("learning_rate", <<"1", "e">>)>>,
      <<Arg("bogus", <<"1">>)>>,
      <<Arg("log_interval", <<"5">>), BareArg("feature_maps")>> }

(* -------------------------------- state --------------------------------- *)
VARIABLES
    pc,             \* position of cli_main
    argv,           \* the argument sequence of this run
    datasetBatches, \* batches per epoch the dataset holds
    datasetRowLen,  \* longest pixel row of the dataset's images
    libMaxEpochs,   \* the installed orchestrator's default for max_epochs
    seed,           \* global random seed, 0 while unseeded
    events,         \* what cli_main has done so far, in order
    parser,         \* the argument parser being built
    args,           \* the parsed namespace
    ctorKwargs,     \* the keyword arguments SRResNet was constructed with
    hparams,        \* model.hparams
    srresnet,       \* model.srresnet
    weights,        \* the values of the generator's parameters
    dm,             \* the dataset adapter
    trainer,        \* the orchestrator: options, callbacks, optimizer, counters
    phase,          \* position of the orchestrator inside fit
    lastCall,       \* the training_step call in progress: batch, weights, result
    tsCalls,        \* training_step calls made
    metrics,        \* metrics logged, in order
    returns,        \* losses returned by training_step, in order
    files,          \* files written, in order
    stepAtReturn,   \* trainer.global_step when fit returned, -1 before
    exitCode,       \* process exit status, -1 while running
    failedBy        \* what raised the error that ended the run

vars == <<pc, argv, datasetBatches, datasetRowLen, libMaxEpochs, seed, events, parser, args, ctorKwargs, hparams,
          srresnet, weights, dm, trainer, phase, lastCall, tsCalls, metrics, returns,
          files, stepAtReturn, exitCode, failedBy>>

inputVars == <<argv, datasetBatches, datasetRowLen, libMaxEpochs>>
parseVars == <<parser, args>>
modelVars == <<ctorKwargs, hparams, srresnet>>
stepVars == <<lastCall, tsCalls, metrics, returns>>
outVars == <<files, stepAtReturn>>

NoTrainer ==
    [max_epochs |-> NoneVal, callbacks |-> <<>>, optimizer |-> NoOptimizer,
     global_step |-> 0, current_epoch |-> 0, batch_idx |-> 0, images_logged |-> 0]

NoCall == [hr |-> NoTensor, lr |-> NoTensor, w |-> 0, outcome |-> "none", loss |-> NoLoss]

\* cli_main is entered, on any of the argument sequences and dataset sizes
Started ==
    /\ pc = "start"
    /\ argv \in Argvs
    /\ datasetBatches \in 0..MaxBatches
    /\ libMaxEpochs \in {NoneVal, IntVal(1000)}
    /\ seed = 0
    /\ events = <<>>
    /\ parser = EmptyMap
    /\ args = EmptyMap
    /\ ctorKwargs = EmptyMap
    /\ hparams = EmptyMap
    /\ srresnet = NoNet
    /\ weights = 0
    /\ dm = [numBatches |-> 0]
    /\ trainer = NoTrainer
    /\ phase = "idle"
    /\ lastCall = NoCall
    /\ tsCalls = 0
    /\ metrics = <<>>
    /\ returns = <<>>
    /\ files = <<>>
    /\ stepAtReturn = -1
    /\ exitCode = -1
    /\ failedBy = "none"

Init == Started /\ datasetRowLen = MaxLen

\* the same runs on a dataset of one-pixel rows
InitSmallImages == Started /\ datasetRowLen = 1

(* ------------------------------- cli_main ------------------------------- *)
\* a driver that goes on to build the parser without seeding
SeedEverything_mutant_skipped ==
    /\ pc = "start"
    /\ pc' = "seeded"
    /\ UNCHANGED <<inputVars, seed, events, parseVars, modelVars, weights, dm, trainer, phase,
                   stepVars, outVars, exitCode, failedBy>>

\* pl.seed_everything(1234)
SeedEverything ==
    /\ pc = "start"
    /\ seed' = 1234
    /\ pc' = "seeded"
    /\ events' = Append(events, "seed")
    /\ UNCHANGED <<inputVars, parseVars, modelVars, weights, dm, trainer, phase,
                   stepVars, outVars, exitCode, failedBy>>

\* the parser: the driver's own option, then the options of the dataset
\* adapter, the orchestrator and the model adapter
BuildParser ==
    /\ pc = "seeded"
    /\ parser' = add_model_specific_args(Trainer_add_argparse_args(DriverParser, libMaxEpochs))
    /\ pc' = "parser_built"
    /\ events' = Append(events, "parser")
    /\ UNCHANGED <<inputVars, seed, args, modelVars, weights, dm, trainer, phase,
                   stepVars, outVars, exitCode, failedBy>>

\* a driver that falls back to the defaults when parsing fails
ParseArgs_mutant_no_exit ==
    /\ pc = "parser_built"
    /\ LET r == parse_args(parser, argv)
       IN  args' = IF r.ok THEN r.ns ELSE Defaults(parser)
    /\ pc' = "parsed"
    /\ events' = Append(events, "parse")
    /\ UNCHANGED <<inputVars, seed, parser, modelVars, weights, dm, trainer, phase,
                   stepVars, outVars, exitCode, failedBy>>

\* args = parser.parse_args(args); a usage error exits with status 2
ParseArgs ==
    /\ pc = "parser_built"
    /\ LET r == parse_args(parser, argv)
       IN  IF r.ok
           THEN /\ args' = r.ns
                /\ pc' = "parsed"
                /\ events' = Append(events, "parse")
                /\ UNCHANGED <<exitCode, failedBy>>
           ELSE /\ args' = args
                /\ pc' = "exited"
                /\ events' = Append(events, "usage_error")
                /\ exitCode' = 2
                /\ failedBy' = "parser"
    /\ UNCHANGED <<inputVars, seed, parser, modelVars, weights, dm, trainer, phase,
                   stepVars, outVars>>

\* whether the numeric library can build a generator of these sizes
Buildable(net) ==
    /\ net.image_channels.t = "int" /\ net.image_channels.v >= 1
    /\ net.feature_maps.t = "int" /\ net.feature_maps.v >= 1

\* model = SRResNet(**vars(args)); the numeric library may reject sizes
\* below one
ConstructModel ==
    /\ pc = "parsed"
    /\ LET m == SRResNet_init(args)
       IN  \/ /\ ctorKwargs' = args
              /\ hparams' = m.hparams
              /\ srresnet' = m.srresnet
              /\ pc' = "model_built"
              /\ events' = Append(events, "model")
              /\ UNCHANGED <<exitCode, failedBy>>
           \/ /\ ~Buildable(m.srresnet)
              /\ pc' = "failed"
              /\ events' = Append(events, "model_error")
              /\ exitCode' = 1
              /\ failedBy' = "model"
              /\ UNCHANGED modelVars
    /\ UNCHANGED <<inputVars, seed, parseVars, weights, dm, trainer, phase, stepVars,
                   outVars>>

\* dm = STL10_SR_DataModule.from_argparse_args(args)
ConstructDataModule ==
    /\ pc = "model_built"
    /\ dm' = [numBatches |-> datasetBatches]
    /\ pc' = "dm_built"
    /\ events' = Append(events, "dm")
    /\ UNCHANGED <<inputVars, seed, parseVars, modelVars, weights, trainer, phase,
                   stepVars, outVars, exitCode, failedBy>>

\* trainer = pl.Trainer.from_argparse_args(args, callbacks=[SRImageLoggerCallback(...)])
ConstructTrainer ==
    /\ pc = "dm_built"
    /\ trainer' = [NoTrainer EXCEPT
                     !.max_epochs = args["max_epochs"],
                     !.callbacks = <<[log_interval |-> args["log_interval"]]>>]
    /\ pc' = "trainer_built"
    /\ events' = Append(events, "trainer")
    /\ UNCHANGED <<inputVars, seed, parseVars, modelVars, weights, dm, phase, stepVars,
                   outVars, exitCode, failedBy>>

(* ----------------------------- trainer.fit ------------------------------ *)
\* the epochs fit runs: max_epochs, or the orchestrator's own 1000 when it is
\* None, followed for at most MaxEpochsRun
EpochLimit ==
    LET n == IF trainer.max_epochs.t = "none" THEN 1000 ELSE trainer.max_epochs.v
    IN  IF n < MaxEpochsRun THEN n ELSE MaxEpochsRun

\* trainer.fit(model, dm) is entered: the orchestrator asks the model for
\* its optimizer
FitBegin ==
    /\ pc = "trainer_built"
    /\ trainer' = [trainer EXCEPT !.optimizer = configure_optimizers(hparams, srresnet)]
    /\ phase' = "step"
    /\ pc' = "fitting"
    /\ events' = Append(events, "fit")
    /\ UNCHANGED <<inputVars, seed, parseVars, modelVars, weights, dm, stepVars, outVars,
                   exitCode, failedBy>>

\* the orchestrator calls model.training_step on the next batch; an
\* exception ends fit and cli_main
TrainingStep ==
    /\ pc = "fitting" /\ phase = "step"
    /\ trainer.current_epoch < EpochLimit
    /\ trainer.batch_idx < dm.numBatches
    /\ tsCalls < MaxSteps
    /\ \E hr \in TensorsUpTo(datasetRowLen), lr \in TensorsUpTo(datasetRowLen) :
         LET r == training_step(srresnet, weights, <<hr, lr>>)
         IN  /\ lastCall' = [hr |-> hr, lr |-> lr, w |-> weights,
                             outcome |-> r.outcome, loss |-> r.loss]
             /\ tsCalls' = tsCalls + 1
             /\ metrics' = metrics \o r.logged
             /\ IF r.outcome = "returned"
                THEN /\ returns' = Append(returns, r.loss)
                     /\ phase' = "batch_end"
                     /\ UNCHANGED <<pc, events, exitCode, failedBy>>
                ELSE /\ returns' = returns
                     /\ phase' = "idle"
                     /\ pc' = "failed"
                     /\ events' = Append(events, "fit_failed")
                     /\ exitCode' = 1
                     /\ failedBy' = r.outcome
    /\ UNCHANGED <<inputVars, seed, parseVars, modelVars, weights, dm, trainer, outVars>>

\* whether the image-logging callback logs at this step
LogsImage(cb, step) == cb.log_interval.v > 0 /\ step % cb.log_interval.v = 0

\* after a training step: the optimizer updates the generator's parameters
\* in place, the step count advances, the image-logging callback runs
BatchEnd ==
    /\ pc = "fitting" /\ phase = "batch_end"
    /\ \E w \in Weights : weights' = w
    /\ trainer' = [trainer EXCEPT
                     !.global_step = @ + 1,
                     !.batch_idx = @ + 1,
                     !.images_logged =
                         IF LogsImage(trainer.callbacks[1], trainer.global_step)
                            /\ forward(srresnet, weights, lastCall.lr).ok
                         THEN @ + 1 ELSE @]
    /\ lastCall' = NoCall
    /\ phase' = "step"
    /\ UNCHANGED <<pc, inputVars, seed, events, parseVars, modelVars, dm, tsCalls,
                   metrics, returns, outVars, exitCode, failedBy>>

\* the dataset adapter has no more batches: the epoch ends
EpochEnd ==
    /\ pc = "fitting" /\ phase = "step"
    /\ trainer.current_epoch < EpochLimit
    /\ trainer.batch_idx >= dm.numBatches
    /\ trainer' = [trainer EXCEPT !.current_epoch = @ + 1, !.batch_idx = 0]
    /\ UNCHANGED <<pc, inputVars, seed, events, parseVars, modelVars, weights, dm, phase,
                   stepVars, outVars, exitCode, failedBy>>

\* fit returns: the epochs are done, or training is followed no further
FitReturn ==
    /\ pc = "fitting" /\ phase = "step"
    /\ \/ trainer.current_epoch >= EpochLimit
       \/ trainer.batch_idx < dm.numBatches /\ tsCalls >= MaxSteps
    /\ phase' = "idle"
    /\ pc' = "fit_returned"
    /\ events' = Append(events, "fit_returned")
    /\ stepAtReturn' = trainer.global_step
    /\ UNCHANGED <<inputVars, seed, parseVars, modelVars, weights, dm, trainer, stepVars,
                   files, exitCode, failedBy>>

\* fit raises an error of the orchestrator's own (device, memory, checkpoint
\* I/O), at set-up or between epochs
FitFail ==
    /\ pc = "fitting" /\ phase = "step" /\ trainer.batch_idx = 0
    /\ phase' = "idle"
    /\ pc' = "failed"
    /\ events' = Append(events, "fit_failed")
    /\ exitCode' = 1
    /\ failedBy' = "orchestrator"
    /\ UNCHANGED <<inputVars, seed, parseVars, modelVars, weights, dm, trainer, stepVars,
                   outVars>>

\* torch.save(model.srresnet, f"srresnet-epoch=...-step=....pt")
SaveArtifact ==
    /\ pc = "fit_returned"
    /\ files' = Append(files,
                       [name |-> ArtifactName(args["max_epochs"], trainer.global_step),
                        obj |-> srresnet.id, weights |-> weights])
    /\ pc' = "done"
    /\ events' = Append(events, "save")
    /\ exitCode' = 0
    /\ UNCHANGED <<inputVars, seed, parseVars, modelVars, weights, dm, trainer, phase,
                   stepVars, stepAtReturn, failedBy>>

Next ==
    \/ SeedEverything
    \/ BuildParser
    \/ ParseArgs
    \/ ConstructModel
    \/ ConstructDataModule
    \/ ConstructTrainer
    \/ FitBegin
    \/ TrainingStep
    \/ BatchEnd
    \/ EpochEnd
    \/ FitReturn
    \/ FitFail
    \/ SaveArtifact

Spec == Init /\ [][Next]_vars

\* cli_main is sequential code and the orchestrator's loop is bounded: a run
\* that can take a step takes one; what the batches hold plays no part in
\* whether the run ends, so the images are kept to one pixel
FairSpec == InitSmallImages /\ [][Next]_vars /\ WF_vars(Next)

(* ------------------------- shared by the claims ------------------------- *)
Happened(e) == \E i \in 1..Len(events) : events[i] = e

Count(e) == Cardinality({i \in 1..Len(events) : events[i] = e})

\* the text written for a value, read back: None as "None", an int as its
\* decimal digits without padding
Denotes(text, val) ==
    IF val.t = "none" THEN text = <<"None">>
    ELSE /\ IsSigned(text)
         /\ SignedVal(text) = val.v
         /\ text[1] = "0" => Len(text) = 1

\* name is srresnet-epoch=<max_epochs>-step=<step>.pt
NamesRun(name, max_epochs, step) ==
    /\ Len(name) >= 5
    /\ name[1] = "srresnet-epoch="
    /\ name[Len(name)] = ".pt"
    /\ \E i \in 3..(Len(name) - 2) :
         /\ name[i] = "-step="
         /\ Denotes(SubSeq(name, 2, i - 1), max_epochs)
         /\ Denotes(SubSeq(name, i + 1, Len(name) - 1), IntVal(step))

\* the option an argument names
DestOf(tok) == tok.flag[2]

IntDests == {"log_interval", "max_epochs", "image_channels", "feature_maps"}
FloatDests == {"learning_rate"}

\* a float literal: <signed> or <signed>e<signed>
IsFloatText(text) ==
    \/ IsSigned(text)
    \/ \E i \in 2..(Len(text) - 1) :
         /\ text[i] = "e"
         /\ IsSigned(SubSeq(text, 1, i - 1))
         /\ IsSigned(SubSeq(text, i + 1, Len(text)))

\* an argument the parser must reject
Rejected(tok) ==
    \/ DestOf(tok) \notin IntDests \cup FloatDests
    \/ ~tok.hasVal
    \/ DestOf(tok) \in IntDests /\ ~IsSigned(tok.val)
    \/ DestOf(tok) \in FloatDests /\ ~IsFloatText(tok.val)

Malformed(a) == \E i \in 1..Len(a) : Rejected(a[i])

Sets(a, dest) == \E i \in 1..Len(a) : DestOf(a[i]) = dest

BeforeParse == pc \in {"start", "seeded", "parser_built"}

ModelBuilt == Happened("model")

(* -------------------------------- claims -------------------------------- *)
\* C1: the artifact file is written at most once, only after fit has
\* returned successfully, under the name
\* srresnet-epoch=<max_epochs>-step=<global_step>.pt with the parsed
\* max_epochs and the global step at the moment fit returned; nothing else
\* is written.
C1_ArtifactWrittenOnceAfterFit ==
    /\ Len(files) <= 1
    /\ Len(files) = 1 =>
         /\ Happened("fit_returned") /\ ~Happened("fit_failed")
         /\ pc = "done"
         /\ stepAtReturn >= 0
         /\ NamesRun(files[1].name, args["max_epochs"], stepAtReturn)
    /\ pc = "done" => Len(files) = 1

C1_Witness ==
    /\ Len(files) = 1
    /\ stepAtReturn = 2
    /\ args["max_epochs"] = IntVal(10)

\* C2: when argument parsing fails the run exits with a non-zero status
\* before the model adapter, the dataset adapter or the orchestrator is
\* constructed, before fit, and without writing the file.
C2_UsageErrorBeforeConstruction ==
    /\ (Malformed(argv) /\ ~BeforeParse) => pc = "exited"
    /\ pc = "exited" =>
         /\ exitCode = 2
         /\ events[Len(events)] = "usage_error"
         /\ hparams = EmptyMap /\ srresnet = NoNet /\ ctorKwargs = EmptyMap
         /\ dm = [numBatches |-> 0]
         /\ trainer = NoTrainer
         /\ ~Happened("model") /\ ~Happened("dm") /\ ~Happened("trainer")
         /\ ~Happened("fit")
         /\ tsCalls = 0
         /\ files = <<>>

C2_Witness ==
    /\ pc = "exited"
    /\ exitCode = 2
    /\ argv = <<Arg("image_channels", <<"x">>)>>

\* C3: a failure of forward or of the loss computation inside training_step
\* leaves training_step with no metric logged for that step, ends the run
\* and is not retried; a failed fit ends cli_main with fit entered once and
\* no file written.
C3_NoRetryNoSuppress ==
    /\ lastCall.outcome # "none" =>
         LET fake == forward(srresnet, lastCall.w, lastCall.lr)
             fails == ~fake.ok \/ ~mse_loss(lastCall.hr, fake.out).ok
         IN  fails =>
               /\ lastCall.outcome \in {"forward_raised", "loss_raised"}
               /\ lastCall.outcome = "forward_raised" <=> ~fake.ok
               /\ pc = "failed" /\ failedBy = lastCall.outcome
               /\ Len(metrics) = tsCalls - 1
               /\ Len(returns) = tsCalls - 1
    /\ Happened("fit_failed") =>
         /\ pc = "failed"
         /\ exitCode = 1
         /\ events[Len(events)] = "fit_failed"
         /\ Count("fit") = 1
         /\ files = <<>>

C3_Witness ==
    /\ pc = "failed"
    /\ lastCall.outcome = "loss_raised"
    /\ tsCalls = 2
    /\ Len(metrics) = 1
    /\ files = <<>>

\* C4 as stated: with Y = forward(X) computed first, training_step on the
\* batch (Y, Y) returns a loss of zero.
C4_Original ==
    ( /\ lastCall.outcome # "none"
      /\ lastCall.hr = lastCall.lr
      /\ \E x \in Tensors :
           LET y == forward(srresnet, lastCall.w, x)
           IN  y.ok /\ y.out = lastCall.hr )
    => (lastCall.outcome = "returned" /\ lastCall.loss.num = 0)

\* C4 amended: training_step on a batch (Y, X) whose high-res element Y is
\* forward(X) of its low-res element X, the parameters unchanged in between,
\* returns a loss of exactly zero.
C4_ZeroLossOnForwardPair ==
    lastCall.outcome # "none" =>
        LET y == forward(srresnet, lastCall.w, lastCall.lr)
        IN  (y.ok /\ y.out = lastCall.hr) =>
              /\ lastCall.outcome = "returned"
              /\ lastCall.loss.num = 0
              /\ lastCall.loss.den > 0

C4_Witness ==
    /\ lastCall.outcome = "returned"
    /\ lastCall.w = 1
    /\ forward(srresnet, lastCall.w, lastCall.lr).out = lastCall.hr
    /\ lastCall.loss.num = 0

\* what a training_step call may change: the call record, the call count,
\* the metrics, the returned losses and, when it raises, the run's end
OnlyStepState ==
    UNCHANGED <<inputVars, seed, parseVars, modelVars, weights, dm, trainer, outVars>>

LoggedAsReturned ==
    /\ Len(metrics) = Len(returns)
    /\ Len(returns) = IF lastCall.outcome \in {"none", "returned"}
                      THEN tsCalls ELSE tsCalls - 1
    /\ \A i \in 1..Len(metrics) :
         metrics[i] = [name |-> "loss", value |-> returns[i],
                       on_step |-> TRUE, on_epoch |-> TRUE]
    /\ lastCall.outcome = "returned" =>
         /\ returns[Len(returns)] = lastCall.loss
         /\ lastCall.loss =
              mse_loss(lastCall.hr, forward(srresnet, lastCall.w, lastCall.lr).out).loss

\* C5: each training_step call that returns logs exactly one metric, named
\* loss, flagged per step and per epoch, whose value is the returned mean
\* squared error, and changes nothing else: the i-th metric carries the i-th
\* returned loss and there are as many metrics as calls that returned.
C5_OneLossMetricPerStep ==
    [][/\ LoggedAsReturned'
       /\ tsCalls' # tsCalls =>
            /\ OnlyStepState
            /\ Len(metrics') <= Len(metrics) + 1
            /\ tsCalls' = tsCalls + 1]_vars

C5_Witness ==
    /\ Len(metrics) = 2
    /\ metrics[1].value # metrics[2].value
    /\ lastCall.outcome = "returned"

\* C6: configure_optimizers returns one optimizer over exactly the
\* parameters of the generator the model adapter owns, with the learning
\* rate given at construction; that generator is the one cli_main persists.
C6_OptimizerOverOwnedNetwork ==
    /\ trainer.optimizer.kind # "none" =>
         /\ trainer.optimizer.kind = "Adam"
         /\ trainer.optimizer.params = parameters(srresnet)
         /\ Cardinality(trainer.optimizer.params) = NumParamTensors
         /\ trainer.optimizer.lr = ctorKwargs["learning_rate"]
    /\ Len(files) >= 1 =>
         /\ files[1].obj = srresnet.id
         /\ files[1].weights = weights
         /\ \A q \in trainer.optimizer.params : q.owner = files[1].obj

C6_Witness ==
    /\ pc = "done"
    /\ Len(files) = 1
    /\ trainer.optimizer.lr = FloatVal(1, -3)
    /\ trainer.global_step = 2

\* C7: seeding the global random state with 1234 is the first thing every
\* run of cli_main does, also a run that ends with a usage error, and it is
\* done once.
C7_SeedFirst ==
    /\ pc # "start" => seed = 1234
    /\ Len(events) >= 1 => events[1] = "seed"
    /\ Count("seed") <= 1
    /\ seed \in {0, 1234}
    /\ seed = 0 => (events = <<>> /\ parser = EmptyMap /\ args = EmptyMap)

C7_Witness ==
    /\ pc = "exited"
    /\ seed = 1234
    /\ events = <<"seed", "parser", "usage_error">>

HparamsAsConstructed ==
    /\ DOMAIN hparams = NamedArgs \cup DOMAIN ctorKwargs
    /\ \A k \in DOMAIN ctorKwargs : hparams[k] = ctorKwargs[k]

\* C8: the hyperparameter set is fixed at construction: it holds the values
\* passed to the constructor, the extra keyword arguments of the driver
\* included, and no later call changes an entry.
C8_HparamsFixed ==
    [][/\ ModelBuilt' => HparamsAsConstructed'
       /\ ModelBuilt => (hparams' = hparams /\ ctorKwargs' = ctorKwargs)]_vars

C8_Witness ==
    /\ tsCalls = 2
    /\ trainer.optimizer.kind = "Adam"
    /\ pc = "done"
    /\ hparams["feature_maps"] = IntVal(8)
    /\ hparams["log_interval"] = IntVal(2)

DefaultZeroBatchRun == argv = <<>> /\ datasetBatches = 0

\* C9: run with default flags on a dataset of zero batches, cli_main
\* eventually writes the file, training_step never called and the name
\* carrying the global step at fit's return, or ends with an error of the
\* orchestrator; no error comes from the parser, the model construction or
\* the naming.
C9_DefaultRunReachesSave ==
    /\ [](DefaultZeroBatchRun =>
            /\ tsCalls = 0
            /\ failedBy \in {"none", "orchestrator"}
            /\ Len(files) = 1 =>
                 /\ stepAtReturn = 0
                 /\ NamesRun(files[1].name, libMaxEpochs, stepAtReturn))
    /\ (DefaultZeroBatchRun ~>
            \/ pc = "done" /\ Len(files) = 1
            \/ pc = "failed" /\ failedBy = "orchestrator")

C9_Witness ==
    /\ DefaultZeroBatchRun
    /\ pc = "done"
    /\ Len(files) = 1
    /\ trainer.current_epoch = MaxEpochsRun

\* the value the last argument naming dest gives
Given(a, dest) ==
    LET i == CHOOSE j \in 1..Len(a) :
                 /\ DestOf(a[j]) = dest
                 /\ \A k \in (j + 1)..Len(a) : DestOf(a[k]) # dest
    IN  Convert(IF dest \in FloatDests THEN "float" ELSE "int", a[i].val).val

\* C10: arguments that set none of image_channels, feature_maps,
\* learning_rate and log_interval parse to 3, 64, 1e-4 and 1000, and the
\* model adapter built from them has the hyperparameters of one built with
\* the constructor's defaults; an option that is set reaches the model
\* adapter (log_interval: the image-logging callback) with the value given.
C10_DefaultsAndPassThrough ==
    /\ Happened("parse") =>
         /\ ~Sets(argv, "image_channels") => args["image_channels"] = IntVal(3)
         /\ ~Sets(argv, "feature_maps") => args["feature_maps"] = IntVal(64)
         /\ ~Sets(argv, "learning_rate") => args["learning_rate"] = FloatVal(1, -4)
         /\ ~Sets(argv, "log_interval") => args["log_interval"] = IntVal(1000)
    /\ ModelBuilt =>
         \A k \in NamedArgs :
            hparams[k] = IF Sets(argv, k) THEN Given(argv, k)
                         ELSE SRResNet_init(EmptyMap).hparams[k]
    /\ Happened("trainer") =>
         /\ Len(trainer.callbacks) = 1
         /\ trainer.callbacks[1].log_interval =
              IF Sets(argv, "log_interval") THEN Given(argv, "log_interval")
              ELSE IntVal(1000)

C10_Witness ==
    /\ Happened("trainer")
    /\ hparams["feature_maps"] = IntVal(8)
    /\ hparams["learning_rate"] = FloatVal(1, -3)
    /\ hparams["image_channels"] = IntVal(3)
    /\ trainer.callbacks[1].log_interval = IntVal(2)

====
